---- MODULE Spec2Model ----
(***************************************************************************)
(* FixMyCity: zone scoring (backend/app.py, priority_zones) and complaint  *)
(* clustering (frontend/pages/heatmap.py, cluster_complaints).             *)
(*                                                                         *)
(* Representation of Python values:                                        *)
(*   str      a tuple of code points, so that the built-in comparison of   *)
(*            strings (used by max() and min()) is the code-point order;   *)
(*   None     Null (the empty tuple); a present value v is <<v>>;          *)
(*   float    coordinates are integers counting 1e-4 degree; scores are    *)
(*            integers counting 1/1000 before round(.., 2) and 1/100 after.*)
(***************************************************************************)
EXTENDS Integers, Sequences, FiniteSets, TLC

\* ------------------------------------------------------------------ bounds
MaxRows == 3
MaxTop == 4
MaxPoints == 4
MaxCrowd == 6
MaxCalls == 5

\* ------------------------------------------------------------ Python values
Null == <<>>
Some(v) == <<v>>

Max2(a, b) == IF a >= b THEN a ELSE b
Min2(a, b) == IF a <= b THEN a ELSE b

\* "low", "medium", "high", "critical", "normal" and a token of no table
low == <<108, 111, 119>>
medium == <<109, 101, 100, 105, 117, 109>>
high == <<104, 105, 103, 104>>
critical == <<99, 114, 105, 116, 105, 99, 97, 108>>
normal == <<110, 111, 114, 109, 97, 108>>
urgent == <<117, 114, 103, 101, 110, 116>>

\* str.__lt__: code-point lexicographic order, a proper prefix is smaller
RECURSIVE StrLess(_, _)
StrLess(a, b) ==
    IF a = <<>> THEN b # <<>>
    ELSE IF b = <<>> THEN FALSE
    ELSE IF Head(a) # Head(b) THEN Head(a) < Head(b)
    ELSE StrLess(Tail(a), Tail(b))

\* max(iterable of str): the first item, replaced by each later greater item
RECURSIVE PyMaxFrom(_, _)
PyMaxFrom(cur, rest) ==
    IF rest = <<>> THEN cur
    ELSE PyMaxFrom(IF StrLess(cur, Head(rest)) THEN Head(rest) ELSE cur, Tail(rest))

PyMax(s) == PyMaxFrom(Head(s), Tail(s))

\* min(iterable of str): the first item, replaced by each later smaller item
RECURSIVE PyMinFrom(_, _)
PyMinFrom(cur, rest) ==
    IF rest = <<>> THEN cur
    ELSE PyMinFrom(IF StrLess(Head(rest), cur) THEN Head(rest) ELSE cur, Tail(rest))

PyMin(s) == PyMinFrom(Head(s), Tail(s))

\* ------------------------------------------------------------- timestamps
\* a datetime is [year, month, day, hour, minute, second, microsecond] (UTC)
DateTime(y, mo, d, h, mi, s, us) ==
    [year |-> y, month |-> mo, day |-> d, hour |-> h, minute |-> mi,
     second |-> s, microsecond |-> us]

RECURSIVE Digits(_, _)
Digits(n, w) == IF w = 0 THEN <<>> ELSE Digits(n \div 10, w - 1) \o <<48 + (n % 10)>>

\* datetime.isoformat(): the fraction is printed only when it is not zero
Isoformat(dt) ==
    Digits(dt.year, 4) \o <<45>> \o Digits(dt.month, 2) \o <<45>> \o Digits(dt.day, 2)
    \o <<84>> \o Digits(dt.hour, 2) \o <<58>> \o Digits(dt.minute, 2) \o <<58>>
    \o Digits(dt.second, 2)
    \o (IF dt.microsecond = 0 THEN <<>> ELSE <<46>> \o Digits(dt.microsecond, 6))

\* timestamp = datetime.utcnow().isoformat() + "Z"
StampOf(dt) == Isoformat(dt) \o <<90>>

\* str.replace("Z", "+00:00")
RECURSIVE ReplaceZ(_)
ReplaceZ(s) ==
    IF s = <<>> THEN <<>>
    ELSE (IF Head(s) = 90 THEN <<43, 48, 48, 58, 48, 48>> ELSE <<Head(s)>>) \o ReplaceZ(Tail(s))

IsDigits(s, i, j) == \A k \in i..j : s[k] \in 48..57

RECURSIVE Num(_, _, _)
Num(s, i, j) == IF j < i THEN 0 ELSE Num(s, i, j - 1) * 10 + (s[j] - 48)

IsLeap(y) == (y % 4 = 0 /\ y % 100 # 0) \/ y % 400 = 0

DaysInMonth(y, m) ==
    IF m = 2 THEN (IF IsLeap(y) THEN 29 ELSE 28)
    ELSE IF m \in {4, 6, 9, 11} THEN 30 ELSE 31

RECURSIVE DaysBeforeMonth(_, _)
DaysBeforeMonth(y, m) == IF m = 1 THEN 0 ELSE DaysBeforeMonth(y, m - 1) + DaysInMonth(y, m - 1)

\* date.toordinal()
ToOrdinal(dt) ==
    LET y1 == dt.year - 1
    IN  y1 * 365 + (y1 \div 4) - (y1 \div 100) + (y1 \div 400)
        + DaysBeforeMonth(dt.year, dt.month) + dt.day

\* datetime.fromisoformat on "YYYY-MM-DD?HH:MM:SS[.ffffff]+00:00".  The result
\* is [ok |-> FALSE] when the call raises, or when the value it returns is
\* naive (no offset), in which case the subtraction from an aware "now" raises.
FromIsoformat(s) ==
    LET n == Len(s)
        shapeOk ==
            /\ n \in {25, 32}
            /\ IsDigits(s, 1, 4) /\ s[5] = 45 /\ IsDigits(s, 6, 7) /\ s[8] = 45
            /\ IsDigits(s, 9, 10)
            /\ IsDigits(s, 12, 13) /\ s[14] = 58 /\ IsDigits(s, 15, 16) /\ s[17] = 58
            /\ IsDigits(s, 18, 19)
            /\ (n = 32 => s[20] = 46 /\ IsDigits(s, 21, 26))
            /\ SubSeq(s, n - 5, n) = <<43, 48, 48, 58, 48, 48>>
        dt == DateTime(Num(s, 1, 4), Num(s, 6, 7), Num(s, 9, 10), Num(s, 12, 13),
                       Num(s, 15, 16), Num(s, 18, 19),
                       IF n = 32 THEN Num(s, 21, 26) ELSE 0)
    IN  IF ~shapeOk THEN [ok |-> FALSE]
        ELSE IF /\ dt.year >= 1 /\ dt.month \in 1..12
                /\ dt.day \in 1..DaysInMonth(dt.year, dt.month)
                /\ dt.hour \in 0..23 /\ dt.minute \in 0..59 /\ dt.second \in 0..59
             THEN [ok |-> TRUE, dt |-> dt]
             ELSE [ok |-> FALSE]

SecondOfDay(dt) == dt.hour * 3600 + dt.minute * 60 + dt.second

\* (now - dt).days: timedelta is normalised, its days field is the floor
DeltaDays(now, dt) ==
    LET borrow == \/ SecondOfDay(now) < SecondOfDay(dt)
                  \/ /\ SecondOfDay(now) = SecondOfDay(dt)
                     /\ now.microsecond < dt.microsecond
    IN  ToOrdinal(now) - ToOrdinal(dt) - (IF borrow THEN 1 ELSE 0)

\* ------------------------------------------------- inputs of the zone engine
T_A == DateTime(2024, 1, 1, 12, 0, 0, 0)
T_B == DateTime(2024, 1, 1, 12, 0, 0, 500000)
T_C == DateTime(2024, 1, 20, 8, 30, 0, 250000)

\* the current time read by a request
Clocks == {DateTime(2024, 1, 31, 12, 0, 0, 200000), DateTime(2024, 1, 10, 0, 0, 0, 0)}

\* "n/a"
NotATime == <<110, 47, 97>>

Row(lat, lon, sev, imp, ts, st) ==
    [latitude |-> lat, longitude |-> lon, severity |-> sev, area_importance |-> imp,
     timestamp |-> ts, status |-> st]

\* rows of table complaints (database.py, CREATE TABLE complaints): latitude,
\* longitude and area_importance are nullable, severity and timestamp are
\* TEXT NOT NULL of any content.  Coordinates ending in an exact ...50 are left
\* out: for them round(x, 2) depends on the binary value nearest to x.
Catalogue ==
    { Row(Some(130821), Some(802701), critical, Some(high), StampOf(T_A), "unresolved"),
      Row(Some(130829), Some(802704), medium, Some(normal), StampOf(T_B), "unresolved"),
      Row(Some(130900), Some(802700), low, Some(critical), StampOf(T_C), "resolved"),
      Row(Some(130904), Some(802698), high, Null, StampOf(T_C), "unresolved"),
      Row(Some(130829), Some(802704), low, Some(low), <<>>, "unresolved"),
      Row(Some(131000), Some(802700), urgent, Some(critical), NotATime, "resolved"),
      Row(Some(0 - 12), Some(802701), medium, Some(high), StampOf(T_A), "resolved"),
      Row(Null, Null, high, Some(high), StampOf(T_A), "unresolved"),
      Row(Some(130821), Null, critical, Some(critical), StampOf(T_B), "unresolved") }

\* the values of the query parameter "top"; Null when the parameter is absent
TopArgs == {Null} \cup {Some(k) : k \in (0 - 2)..MaxTop}

\* ------------------------------------------------------------------- state
VARIABLES
    complaints,       \* table complaints, in rowid order
    pc,               \* "idle", or the operation whose result is held
    req_top,          \* priority_zones: top
    req_now,          \* priority_zones: now
    zone_complaints,  \* priority_zones: the dict, in insertion order
    zones,            \* priority_zones: the JSON body returned
    http_status,      \* status code of the response
    df,               \* the dataframe handed to cluster_complaints
    eps,              \* cluster_complaints: eps, in 1e-8 radian
    min_samples,      \* cluster_complaints: min_samples
    cluster,          \* column 'cluster' of the dataframe returned
    cluster_stats,    \* the statistics frame returned, indexed by label
    warning,          \* TRUE when st.warning was called
    valid_clusters,   \* render: the rows of cluster_stats the page shows
    valid_category_clusters,  \* render: the dominant category of each cluster
    complaint_seq,    \* sqlite_sequence of complaints: the last id given
    users,            \* table users, in rowid order
    user_complaints,  \* table user_complaints, in rowid order
    officer_actions,  \* table officer_actions, in rowid order
    request,          \* the arguments of the request that is answered
    authenticated,    \* st.session_state.authenticated
    user,             \* st.session_state.user
    current_page,     \* st.session_state.current_page
    rendered          \* what the last run of main() has rendered

zoneVars == <<req_top, req_now, zone_complaints, zones, http_status>>
clusterVars == <<eps, min_samples, cluster, cluster_stats, warning>>
renderVars == <<valid_clusters, valid_category_clusters>>
storeVars == <<complaint_seq, users, user_complaints, officer_actions>>
sessionVars == <<authenticated, user, current_page, rendered>>
vars == <<complaints, pc, req_top, req_now, zone_complaints, zones, http_status,
          df, eps, min_samples, cluster, cluster_stats, warning,
          valid_clusters, valid_category_clusters,
          complaint_seq, users, user_complaints, officer_actions, request,
          authenticated, user, current_page, rendered>>

\* ----------------------------------------------------------- priority_zones
\* severity_weight.get(token, 1)
severity_weight(token) ==
    IF token = low THEN 1
    ELSE IF token = medium THEN 2
    ELSE IF token = high THEN 3
    ELSE IF token = critical THEN 4
    ELSE 1

\* area_importance_weight.get(token, 1), in 1/1000
area_importance_weight(token) ==
    IF token = low THEN 500
    ELSE IF token = normal THEN 1000
    ELSE IF token = high THEN 2000
    ELSE IF token = critical THEN 3000
    ELSE 1000

\* SELECT ... WHERE latitude IS NOT NULL AND longitude IS NOT NULL
SelectLocated(table) ==
    SelectSeq(table, LAMBDA r : r.latitude # Null /\ r.longitude # Null)

\* round(x, 2) of a value given in units of 1/unit-per-hundredth: to the nearest
\* hundredth, an exact tie to the even one
RoundTo(x, per) ==
    LET q == x \div per
        r == x % per
    IN  IF 2 * r < per THEN q
        ELSE IF 2 * r > per THEN q + 1
        ELSE IF q % 2 = 0 THEN q ELSE q + 1

\* a zone key rounded to 1 decimal instead of 2
ZoneKeyOneDecimal(r) ==
    <<RoundTo(r.latitude[1], 1000) * 10, RoundTo(r.longitude[1], 1000) * 10>>

\* zone_key = (round(lat, 2), round(lon, 2)), in 1/100 degree
ZoneKey(r) == <<RoundTo(r.latitude[1], 100), RoundTo(r.longitude[1], 100)>>

\* r["area_importance"] or "normal"
AreaOrNormal(imp) == IF imp = Null \/ imp[1] = <<>> THEN normal ELSE imp[1]

ZoneEntry(r) ==
    [id |-> r.id, severity |-> r.severity, timestamp |-> r.timestamp,
     status |-> r.status, area_importance |-> AreaOrNormal(r.area_importance)]

\* the loop with zone_complaints[zone_key] = [entry] in place of append
RECURSIVE GroupRowsOverwrite(_, _)
GroupRowsOverwrite(rows, acc) ==
    IF rows = <<>> THEN acc
    ELSE LET r == Head(rows)
             k == ZoneKey(r)
             at == {i \in 1..Len(acc) : acc[i].key = k}
         IN  GroupRowsOverwrite(Tail(rows),
                 IF at = {}
                 THEN Append(acc, [key |-> k, complaints |-> <<ZoneEntry(r)>>])
                 ELSE [i \in 1..Len(acc) |->
                          IF i \in at
                          THEN [acc[i] EXCEPT !.complaints = <<ZoneEntry(r)>>]
                          ELSE acc[i]])

\* the loop filling zone_complaints: a defaultdict(list), which keeps its keys
\* in the order of their first insertion
RECURSIVE GroupRows(_, _)
GroupRows(rows, acc) ==
    IF rows = <<>> THEN acc
    ELSE LET r == Head(rows)
             k == ZoneKey(r)
             at == {i \in 1..Len(acc) : acc[i].key = k}
         IN  GroupRows(Tail(rows),
                 IF at = {}
                 THEN Append(acc, [key |-> k, complaints |-> <<ZoneEntry(r)>>])
                 ELSE [i \in 1..Len(acc) |->
                          IF i \in at
                          THEN [acc[i] EXCEPT !.complaints = Append(@, ZoneEntry(r))]
                          ELSE acc[i]])

\* the dict not emptied between two requests
ZoneComplaintsKept(rows) == GroupRows(rows, zone_complaints)

\* zone_complaints = defaultdict(list), then the loop
ZoneComplaints(rows) == GroupRows(rows, <<>>)

Field(members, f) == [i \in 1..Len(members) |-> members[i][f]]

\* max(c["severity"] for c in complaints)
MaxSeverity(members) == PyMax(Field(members, "severity"))

\* max(c["area_importance"] for c in complaints)
MaxAreaImportance(members) == PyMax(Field(members, "area_importance"))

\* oldest = min(c["timestamp"] for c in complaints)
Oldest(members) == PyMin(Field(members, "timestamp"))

\* the try block: days = max(0, (now - dt).days), or 0 on any exception
Days(oldest, now) ==
    LET p == FromIsoformat(ReplaceZ(oldest))
    IN  IF p.ok THEN Max2(0, DeltaDays(now, p.dt)) ELSE 0

Unresolved(members) ==
    Cardinality({i \in 1..Len(members) : members[i].status = "unresolved"})

DaysUnresolved(members, now) ==
    IF Unresolved(members) # 0 THEN Days(Oldest(members), now) ELSE 0

\* (n * 2) + (sw * 3) + (days_unresolved * 1.5) + (aiw * 2), in 1/1000
PriorityScore(n, sw, days_unresolved, aiw) ==
    n * 2000 + sw * 3000 + days_unresolved * 1500 + aiw * 2

\* one iteration of the loop over zone_complaints.items()
Zone(z, now) ==
    LET n == Len(z.complaints)
        max_severity == MaxSeverity(z.complaints)
        max_area_importance == MaxAreaImportance(z.complaints)
        days_unresolved == DaysUnresolved(z.complaints, now)
    IN  [latitude |-> z.key[1],
         longitude |-> z.key[2],
         complaint_count |-> n,
         priority_score |->
             RoundTo(PriorityScore(n, severity_weight(max_severity), days_unresolved,
                                   area_importance_weight(max_area_importance)), 10),
         severity |-> max_severity,
         area_importance |-> max_area_importance,
         days_unresolved |-> days_unresolved]

\* zones.sort(key=priority_score, reverse=True): stable, so zones of equal
\* score keep the order they had
RECURSIVE InsertByScore(_, _)
InsertByScore(z, s) ==
    IF s = <<>> THEN <<z>>
    ELSE IF Head(s).priority_score >= z.priority_score
         THEN <<Head(s)>> \o InsertByScore(z, Tail(s))
         ELSE <<z>> \o s

RECURSIVE SortFrom(_, _)
SortFrom(acc, rest) ==
    IF rest = <<>> THEN acc ELSE SortFrom(InsertByScore(Head(rest), acc), Tail(rest))

\* the sort without reverse=True: ascending
SortZonesAscending(zs) ==
    LET d == SortFrom(<<>>, zs) IN [i \in 1..Len(d) |-> d[Len(d) + 1 - i]]

SortZones(zs) == SortFrom(<<>>, zs)

\* request.args.get("top", 5, type=int)
TopOf(arg) == IF arg = Null THEN 5 ELSE arg[1]

\* zones[:top]
SliceTo(s, top) ==
    SubSeq(s, 1, IF top < 0 THEN Max2(0, Len(s) + top) ELSE Min2(top, Len(s)))

\* the body returned for a table, a clock reading and a value of top
RankZones(table, now, top) ==
    LET zc == ZoneComplaints(SelectLocated(table))
    IN  SliceTo(SortZones([i \in 1..Len(zc) |-> Zone(zc[i], now)]), top)

\* --------------------------------------------------------- cluster_complaints
\* latitudes (1e-4 degree) of the complaints of the dataframe; all of them lie
\* on the meridian 80.27 E, where the haversine distance of two points is
\* exactly the difference of their latitudes in radians
PointLatitudes == {130800, 130813, 130826, 130860, 131250}
PointLongitude == 802700

\* eps in kilometres handed on as the eps of DBSCAN
EpsNotConverted(eps_km10) == eps_km10 * 10000000

\* eps_radians = eps / 6371.0 for eps in tenths of a kilometre, in 1e-8 radian
EpsRadians(eps_km10) == (eps_km10 * 10000000) \div 6371

\* the values of eps: 0.3 km and 0.5 km of the slider, and 0
EpsArgs == {0, EpsRadians(3), EpsRadians(5)}

\* categories of the complaint form
road_damage == <<82, 111, 97, 100, 32, 100, 97, 109, 97, 103, 101>>
drainage == <<68, 114, 97, 105, 110, 97, 103, 101>>
\* the string 'None'
NoneStr == <<78, 111, 110, 101>>

\* the severities and categories of the complaints of a dataframe whose rows
\* differ in them: two places 5 km apart
Reports ==
    {[latitude |-> lat, severity |-> r[1], category |-> r[2]] :
        lat \in {130800, 131250},
        r \in {<<high, road_damage>>, <<low, drainage>>, <<low, road_damage>>}}

\* the values of min_samples: 1..3 of the slider, and 0
MinSamplesArgs == 0..3

\* np.radians(x) of x in 1e-4 degree, in 1e-8 radian
Radians(x) == (x * 1745) \div 10

\* metric='haversine' on two rows of np.radians(coords) with equal longitude
Haversine(p, q) ==
    IF Radians(p.latitude) >= Radians(q.latitude)
    THEN Radians(p.latitude) - Radians(q.latitude)
    ELSE Radians(q.latitude) - Radians(p.latitude)

\* radius_neighbors: the indices within eps of point i, itself included
Neighborhood(pts, e, i) ==
    SelectSeq([j \in 1..Len(pts) |-> j], LAMBDA j : Haversine(pts[i], pts[j]) <= e)

\* the core test that needs one point within eps, whatever min_samples is
IsCoreIgnoringMinSamples(pts, e, ms, i) == Len(Neighborhood(pts, e, i)) >= 1

\* a core test that does not count the point itself
IsCoreExcludingSelf(pts, e, ms, i) == Len(Neighborhood(pts, e, i)) - 1 >= ms

\* core_samples: n_neighbors >= min_samples
IsCore(pts, e, ms, i) == Len(Neighborhood(pts, e, i)) >= ms

\* dbscan_inner, the while loop: depth-first labelling from a core point
\* a cluster that takes the neighbours of its first point only
ExpandClusterNoChain(pts, e, ms, labels, stack, i, label_num) ==
    [k \in 1..Len(pts) |->
        IF labels[k] = 0 - 1 /\ Haversine(pts[i], pts[k]) <= e
        THEN label_num ELSE labels[k]]

RECURSIVE ExpandCluster(_, _, _, _, _, _, _)
ExpandCluster(pts, e, ms, labels, stack, i, label_num) ==
    LET fresh == labels[i] = 0 - 1
        labels1 == IF fresh THEN [labels EXCEPT ![i] = label_num] ELSE labels
        pushed == IF fresh /\ IsCore(pts, e, ms, i)
                  THEN SelectSeq(Neighborhood(pts, e, i), LAMBDA v : labels1[v] = 0 - 1)
                  ELSE <<>>
        stack1 == stack \o pushed
    IN  IF stack1 = <<>> THEN labels1
        ELSE ExpandCluster(pts, e, ms, labels1, SubSeq(stack1, 1, Len(stack1) - 1),
                           stack1[Len(stack1)], label_num)

\* dbscan_inner, the for loop over the points
RECURSIVE DbscanInner(_, _, _, _, _, _)
DbscanInner(pts, e, ms, labels, i, label_num) ==
    IF i > Len(pts) THEN labels
    ELSE IF labels[i] # 0 - 1 \/ ~IsCore(pts, e, ms, i)
         THEN DbscanInner(pts, e, ms, labels, i + 1, label_num)
         ELSE DbscanInner(pts, e, ms,
                          ExpandCluster(pts, e, ms, labels, <<>>, i, label_num),
                          i + 1, label_num + 1)

\* DBSCAN(eps, min_samples, metric='haversine').fit(np.radians(coords)).labels_
\* fit raises ValueError when eps is not positive or min_samples is below 1
DBSCAN(pts, e, ms) ==
    IF e <= 0 \/ ms < 1 THEN [ok |-> FALSE]
    ELSE [ok |-> TRUE,
          labels_ |-> DbscanInner(pts, e, ms, [i \in 1..Len(pts) |-> 0 - 1], 1, 0)]

\* every row in cluster 0
AllInClusterZero(pts) == [i \in 1..Len(pts) |-> 0]

\* df_result['cluster'] = -1
AllNoise(pts) == [i \in 1..Len(pts) |-> 0 - 1]

\* pd.DataFrame(columns=[...]) with index name 'cluster': no row
EmptyStats == [l \in {} |-> 0]

RECURSIVE SumOver(_, _)
SumOver(S, f) ==
    IF S = {} THEN 0
    ELSE LET x == CHOOSE y \in S : TRUE IN f[x] + SumOver(S \ {x}, f)

\* one row per label that occurs, with the means of the whole dataframe
GroupByClusterMeanOfAll(pts, labels) ==
    [l \in {labels[i] : i \in 1..Len(pts)} |->
        [latitude |-> <<SumOver(1..Len(pts), [i \in 1..Len(pts) |-> pts[i].latitude]),
                        Len(pts)>>,
         longitude |-> <<SumOver(1..Len(pts), [i \in 1..Len(pts) |-> pts[i].longitude]),
                         Len(pts)>>,
         complaint_count |-> Cardinality({i \in 1..Len(pts) : labels[i] = l})]]

\* df_clustered.groupby('cluster').agg(latitude mean, longitude mean, id count):
\* one row per label that occurs; a mean is kept as <<sum, count>>
GroupByCluster(pts, labels) ==
    [l \in {labels[i] : i \in 1..Len(pts)} |->
        LET members == {i \in 1..Len(pts) : labels[i] = l}
        IN  [latitude |-> <<SumOver(members, [i \in members |-> pts[i].latitude]),
                            Cardinality(members)>>,
             longitude |-> <<SumOver(members, [i \in members |-> pts[i].longitude]),
                             Cardinality(members)>>,
             complaint_count |-> Cardinality(members)]]

\* the distinct values of a series, in the order of their first appearance
RECURSIVE Unique(_, _)
Unique(series, seen) ==
    IF series = <<>> THEN seen
    ELSE Unique(Tail(series),
                IF \E k \in 1..Len(seen) : seen[k] = Head(series)
                THEN seen ELSE Append(seen, Head(series)))

CountIn(series, v) == Cardinality({k \in 1..Len(series) : series[k] = v})

\* one step of the sort of value_counts: descending counts, equal counts stay
\* in the order they had
InsertByCount(sorted, e) ==
    LET before == SelectSeq(sorted, LAMBDA x : x.count >= e.count)
        after == SelectSeq(sorted, LAMBDA x : x.count < e.count)
    IN  before \o <<e>> \o after

RECURSIVE SortCountsFrom(_, _)
SortCountsFrom(entries, sorted) ==
    IF entries = <<>> THEN sorted
    ELSE SortCountsFrom(Tail(entries), InsertByCount(sorted, Head(entries)))

\* series.value_counts(): the distinct values with their counts, most frequent
\* first
ValueCounts(series) ==
    LET u == Unique(series, <<>>)
    IN  SortCountsFrom([k \in 1..Len(u) |-> [value |-> u[k],
                                             count |-> CountIn(series, u[k])]],
                       <<>>)

get_dominant_severity(severity_series) ==
    IF Len(severity_series) = 0 THEN low
    ELSE LET severity_counts == ValueCounts(severity_series)
         IN  IF Len(severity_counts) = 0 THEN low ELSE severity_counts[1].value

get_dominant_category(category_series) ==
    IF Len(category_series) = 0 THEN NoneStr
    ELSE LET category_counts == ValueCounts(category_series)
         IN  IF Len(category_counts) = 0 THEN NoneStr
             ELSE category_counts[1].value

\* the rows of one group of groupby('cluster'), in the order of the dataframe
GroupRowsOf(pts, labels, l) ==
    SelectSeq([i \in 1..Len(pts) |-> i], LAMBDA i : labels[i] = l)

\* groupby('cluster')['severity'].apply(get_dominant_severity)
SeverityByCluster(pts, labels) ==
    [l \in {labels[i] : i \in 1..Len(pts)} |->
        LET rows == GroupRowsOf(pts, labels, l)
        IN  get_dominant_severity([k \in 1..Len(rows) |-> pts[rows[k]].severity])]

\* cluster_stats with a row for a label that no row of the dataframe carries
ClusterStatsWithEmptyGroup(pts, labels) ==
    LET stats == GroupByCluster(pts, labels)
        severity_by_cluster == SeverityByCluster(pts, labels)
    IN  [l \in DOMAIN stats \cup {Len(pts)} |->
            IF l \in DOMAIN stats
            THEN [latitude |-> stats[l].latitude,
                  longitude |-> stats[l].longitude,
                  complaint_count |-> stats[l].complaint_count,
                  dominant_severity |-> severity_by_cluster[l]]
            ELSE [latitude |-> <<0, 0>>, longitude |-> <<0, 0>>,
                  complaint_count |-> 0,
                  dominant_severity |-> get_dominant_severity(<<>>)]]

\* cluster_stats with the column dominant_severity
ClusterStats(pts, labels) ==
    LET stats == GroupByCluster(pts, labels)
        severity_by_cluster == SeverityByCluster(pts, labels)
    IN  [l \in DOMAIN stats |->
            [latitude |-> stats[l].latitude,
             longitude |-> stats[l].longitude,
             complaint_count |-> stats[l].complaint_count,
             dominant_severity |-> severity_by_cluster[l]]]

\* the column 'cluster' written to the dataframe of the caller itself
CallerFrameWritten(pts, labels) ==
    [i \in 1..Len(pts) |->
        [c \in DOMAIN pts[i] \cup {"cluster"} |->
            IF c = "cluster" THEN labels[i] ELSE pts[i][c]]]

\* the dataframe of the caller after df_result = df.copy() (df_clustered =
\* df.copy()) and the assignment of the column 'cluster' to the copy
CallerFrame(pts, labels) == pts

\* cluster_complaints without the return for fewer than 2 rows: DBSCAN.fit
\* raises on an array of 0 rows
cluster_complaintsNoShortReturn(pts, e, ms) ==
    LET clustering == IF Len(pts) = 0 THEN [ok |-> FALSE] ELSE DBSCAN(pts, e, ms)
    IN  IF clustering.ok
        THEN [df |-> CallerFrame(pts, clustering.labels_),
              cluster |-> clustering.labels_,
              cluster_stats |-> ClusterStats(pts, clustering.labels_),
              warning |-> FALSE]
        ELSE [df |-> CallerFrame(pts, AllNoise(pts)),
              cluster |-> AllNoise(pts), cluster_stats |-> EmptyStats,
              warning |-> TRUE]

\* cluster_complaints(df, eps, min_samples): the dataframe of the caller after
\* the call, the column 'cluster' of the frame returned, the statistics frame,
\* and whether st.warning was called
cluster_complaints(pts, e, ms) ==
    IF Len(pts) < 2
    THEN [df |-> CallerFrame(pts, AllNoise(pts)),
          cluster |-> AllNoise(pts), cluster_stats |-> EmptyStats,
          warning |-> FALSE]
    ELSE LET clustering == DBSCAN(pts, e, ms)
         IN  IF clustering.ok
             THEN [df |-> CallerFrame(pts, clustering.labels_),
                   cluster |-> clustering.labels_,
                   cluster_stats |-> ClusterStats(pts, clustering.labels_),
                   warning |-> FALSE]
             ELSE [df |-> CallerFrame(pts, AllNoise(pts)),
                   cluster |-> AllNoise(pts), cluster_stats |-> EmptyStats,
                   warning |-> TRUE]

\* ------------------------------------------------------------------ render
\* the tiers with > in the place of >=
get_priority_levelAbove(count) ==
    IF count > 5 THEN "Critical"
    ELSE IF count > 3 THEN "High"
    ELSE "Medium"

get_priority_level(count) ==
    IF count >= 5 THEN "Critical"
    ELSE IF count >= 3 THEN "High"
    ELSE "Medium"

\* the statistics frame with every row, that of label -1 included
ValidClustersWithNoise(stats) ==
    [l \in DOMAIN stats |->
        [latitude |-> stats[l].latitude,
         longitude |-> stats[l].longitude,
         complaint_count |-> stats[l].complaint_count,
         dominant_severity |-> stats[l].dominant_severity,
         priority_level |-> get_priority_level(stats[l].complaint_count)]]

\* cluster_stats[cluster_stats.index != -1] with the column priority_level
ValidClusters(stats) ==
    [l \in DOMAIN stats \ {0 - 1} |->
        [latitude |-> stats[l].latitude,
         longitude |-> stats[l].longitude,
         complaint_count |-> stats[l].complaint_count,
         dominant_severity |-> stats[l].dominant_severity,
         priority_level |-> get_priority_level(stats[l].complaint_count)]]

\* groupby('cluster')['category'].apply(get_dominant_category), without the
\* row of label -1
ValidCategoryClusters(pts, labels) ==
    [l \in {labels[i] : i \in 1..Len(pts)} \ {0 - 1} |->
        LET rows == GroupRowsOf(pts, labels, l)
        IN  get_dominant_category([k \in 1..Len(rows) |-> pts[rows[k]].category])]

\* ---------------------------------------------------------- create_complaint
\* "T Nagar"
t_nagar == <<84, 32, 78, 97, 103, 97, 114>>
\* "pothole"
pothole == <<112, 111, 116, 104, 111, 108, 101>>

\* what geocode_location returns: (lat, lon) of the first result, or
\* (None, None) when there is no result, a timeout, a network or a parse error
GeocodeOutcomes == {<<Null, Null>>, <<Some(130418), Some(802341)>>}

\* lat_val, lon_val = 13.0827, 80.2707
ChennaiDefault == <<Some(130827), Some(802707)>>

\* the time read by a submission
SubmitClocks == {T_C}

\* the JSON body of POST /api/complaints; an absent key is Null, an empty
\* string <<>>; image is "none", "ok" or "bad" (base64 that does not decode)
Body(cat, sev, descr, lat, lon, area, img, uid, imp) ==
    [category |-> cat, severity |-> sev, description |-> descr, latitude |-> lat,
     longitude |-> lon, area_name |-> area, image |-> img, user_id |-> uid,
     area_importance |-> imp]

\* bodies that differ in the coordinates and the area name they carry, and
\* bodies that are refused
SubmitRequests ==
    { Body(road_damage, high, pothole, Some(130821), Some(802701), <<>>, "none", Null, Null),
      Body(road_damage, high, pothole, Some(130821), Null, <<>>, "none", Null, Some(high)),
      Body(road_damage, high, pothole, Null, Some(802701), <<>>, "none", Null, Some(urgent)),
      Body(road_damage, high, pothole, Null, Null, t_nagar, "none", Null, Null),
      Body(road_damage, high, pothole, Some(130821), Null, t_nagar, "ok", Null, Null),
      Body(road_damage, high, pothole, Some(130821), Some(802701), t_nagar, "none", Null, Null),
      Body(road_damage, high, pothole, Null, Null, <<>>, "none", Null, Null),
      Body(road_damage, <<>>, pothole, Some(130821), Some(802701), <<>>, "none", Null, Null),
      Body(road_damage, high, <<>>, Null, Null, t_nagar, "none", Null, Null),
      Body(road_damage, high, pothole, Null, Null, t_nagar, "bad", Null, Null) }

\* the checks that answer 400 before anything is stored
Refused(body) ==
    \/ body.category = <<>> \/ body.severity = <<>>
    \/ body.description = <<>>
    \/ (body.latitude = Null /\ body.longitude = Null /\ body.area_name = <<>>)

\* (latitude is None or longitude is None) and area_name
Geocoded(body) ==
    (body.latitude = Null \/ body.longitude = Null) /\ body.area_name # <<>>

\* lat_val, lon_val without the default for a lookup that fails
CoordinatesNoDefault(body, geo) ==
    IF Geocoded(body) THEN geo ELSE <<body.latitude, body.longitude>>

\* lat_val, lon_val
Coordinates(body, geo) ==
    IF Geocoded(body)
    THEN IF geo[1] = Null \/ geo[2] = Null THEN ChennaiDefault ELSE geo
    ELSE <<body.latitude, body.longitude>>

\* area_importance, "normal" for a value outside the four levels
AreaImportance(body) ==
    IF body.area_importance = Null THEN normal
    ELSE IF body.area_importance[1] \in {low, normal, high, critical}
         THEN body.area_importance[1] ELSE normal

\* the row INSERTed INTO complaints
NewComplaint(body, geo, now, row_id) ==
    [id |-> row_id,
     latitude |-> Coordinates(body, geo)[1],
     longitude |-> Coordinates(body, geo)[2],
     severity |-> body.severity,
     area_importance |-> Some(AreaImportance(body)),
     timestamp |-> StampOf(now),
     status |-> "unresolved",
     area_name |-> IF body.area_name = <<>> THEN Null ELSE Some(body.area_name)]

\* if user_id:
Truthy(uid) == uid # Null /\ uid[1] # 0

\* ------------------------------------------------------ users and officers
\* "alice", "bob", their addresses and passwords
alice == <<97, 108, 105, 99, 101>>
bob == <<98, 111, 98>>
alice_mail == <<97, 108, 105, 99, 101, 64, 101, 120, 97, 109, 112, 108, 101, 46, 99, 111, 109>>
bob_mail == <<98, 111, 98, 64, 101, 120, 97, 109, 112, 108, 101, 46, 99, 111, 109>>
secret1 == <<115, 101, 99, 114, 101, 116, 49>>
hunter22 == <<104, 117, 110, 116, 101, 114, 50, 50>>
\* "abc", a password of fewer than 6 characters
abc == <<97, 98, 99>>

\* secrets.token_hex(16): one value stands for the salt drawn
Salts == {<<48, 49, 50, 51, 52, 53, 54, 55, 56, 57, 97, 98, 99, 100, 101, 102, 48, 49, 50, 51, 52, 53, 54, 55, 56, 57, 97, 98, 99, 100, 101, 102>>}

\* hashlib.pbkdf2_hmac('sha256', password, salt, 100000).hex(): the digest is
\* not computed; it is distinct for distinct pairs of password and salt
Pbkdf2(password, salt) == <<password, salt>>

\* salt + pwdhash.hex(): the first 32 characters and the rest
hash_password(password, salt) == [salt |-> salt, pwdhash |-> Pbkdf2(password, salt)]

\* the comparison that accepts every password
verify_passwordAlways(stored_password, provided_password) == TRUE

verify_password(stored_password, provided_password) ==
    Pbkdf2(provided_password, stored_password.salt) = stored_password.pwdhash

\* the JSON body of POST /api/register
Account(username, email, password, role) ==
    [username |-> username, email |-> email, password |-> password, role |-> role]

\* a citizen and an officer
StoreAccounts ==
    { Account(alice, alice_mail, secret1, "citizen"),
      Account(bob, bob_mail, hunter22, "officer") }

\* the rows of users with a value v in the column col
UsersWith(col, v) == {i \in 1..Len(users) : users[i][col] = v}

\* get_user_by_id: the row, or None
get_user_by_id(user_id) ==
    LET at == {i \in UsersWith("id", user_id) : users[i].is_active = 1}
    IN  IF at = {} THEN Null ELSE Some(users[CHOOSE i \in at : TRUE])

\* authenticate_user: id, username, email and role of the user, or None
authenticate_user(username, password) ==
    LET at == UsersWith("username", username)
        u == users[CHOOSE i \in at : TRUE]
    IN  IF at # {} /\ u.is_active = 1 /\ verify_password(u.password_hash, password)
        THEN Some([id |-> u.id, username |-> u.username, email |-> u.email,
                   role |-> u.role])
        ELSE Null

\* the checks of register, and the UNIQUE columns of users, that answer 400
RegisterRefused(body) ==
    \/ body.username = <<>> \/ body.email = <<>> \/ body.password = <<>>
    \/ body.role \notin {"citizen", "officer"}
    \/ Len(body.password) < 6
    \/ UsersWith("username", body.username) # {}
    \/ UsersWith("email", body.email) # {}

\* the table users after INSERT INTO users
create_user(body, salt) ==
    Append(users,
           [id |-> Len(users) + 1, username |-> body.username, email |-> body.email,
            password_hash |-> hash_password(body.password, salt),
            role |-> body.role, is_active |-> 1])

\* POST /api/login: the user of the answer 200, None for 400 and 401, where
\* raise_for_status makes api_request return None
login(username, password) ==
    IF username = <<>> \/ password = <<>> THEN Null
    ELSE authenticate_user(username, password)

\* the officer check of resolve and unresolve that lets every known user pass
IsOfficerAnyRole(officer_id) == get_user_by_id(officer_id) # Null

\* not (not user or user['role'] != 'officer')
IsOfficer(officer_id) ==
    get_user_by_id(officer_id) # Null /\ get_user_by_id(officer_id)[1].role = "officer"

\* the officer_id of a body of resolve and unresolve, Null when it is missing
OfficerIds == {Null, Some(1), Some(2)}

\* the complaint_id and the user_id of a URL
ComplaintIds == {1, 2}
UserIds == {1, 2}

\* UPDATE complaints SET status = ? WHERE id = ?
SetStatus(table, complaint_id, status) ==
    [i \in 1..Len(table) |->
        IF table[i].id = complaint_id THEN [table[i] EXCEPT !.status = status]
        ELSE table[i]]

\* the ownership check that looks at the user alone
OwnershipByUser(user_id, complaint_id) ==
    \E i \in 1..Len(user_complaints) : user_complaints[i].user_id = user_id

\* SELECT 1 FROM user_complaints WHERE user_id = ? AND complaint_id = ?
Ownership(user_id, complaint_id) ==
    \E i \in 1..Len(user_complaints) :
        /\ user_complaints[i].user_id = user_id
        /\ user_complaints[i].complaint_id = complaint_id

\* bodies of complaints with both coordinates, without and with a user_id
FiledRequests ==
    { Body(road_damage, high, pothole, Some(130821), Some(802701), <<>>, "none", Null, Null),
      Body(road_damage, high, pothole, Some(130821), Some(802701), <<>>, "none", Some(1), Null) }

\* the requests answered so far that have written to the database
Calls ==
    Len(users) + complaint_seq + (complaint_seq - Len(complaints)) + Len(officer_actions)

\* -------------------------------------------------------------- main.py
\* the values of current_page that main_app renders
Pages == {"dashboard", "complaint", "heatmap", "priority", "datatable", "analytics"}

\* what is typed into login_form
Credentials ==
    { [username |-> alice, password |-> secret1],
      [username |-> alice, password |-> hunter22],
      [username |-> bob, password |-> hunter22],
      [username |-> <<>>, password |-> secret1] }

\* what is typed into register_form
Form(username, email, password, confirm_password, role) ==
    [username |-> username, email |-> email, password |-> password,
     confirm_password |-> confirm_password, role |-> role]

Forms ==
    { Form(alice, alice_mail, secret1, secret1, "citizen"),
      Form(bob, bob_mail, hunter22, hunter22, "officer"),
      Form(bob, bob_mail, hunter22, secret1, "officer"),
      Form(bob, bob_mail, abc, abc, "citizen"),
      Form(bob, <<>>, hunter22, hunter22, "citizen") }

\* the checks of register_page before the API is called
FormRefused(form) ==
    \/ form.username = <<>> \/ form.email = <<>> \/ form.password = <<>>
    \/ form.confirm_password = <<>>
    \/ form.password # form.confirm_password
    \/ Len(form.password) < 6

\* the page of the selectbox whose index follows current_page
SelectedPage(page) == IF page \in Pages THEN page ELSE "dashboard"

\* ---------------------------------------------------------------- actions
Init ==
    /\ complaints = <<>>
    /\ pc = "idle"
    /\ req_top = 0
    /\ req_now = Null
    /\ zone_complaints = <<>>
    /\ zones = <<>>
    /\ http_status = 0
    /\ df = <<>>
    /\ eps = 0
    /\ min_samples = 0
    /\ cluster = <<>>
    /\ cluster_stats = EmptyStats
    /\ warning = FALSE
    /\ valid_clusters = EmptyStats
    /\ valid_category_clusters = EmptyStats
    /\ complaint_seq = 0
    /\ users = <<>>
    /\ user_complaints = <<>>
    /\ officer_actions = <<>>
    /\ request = Null
    /\ authenticated = FALSE
    /\ user = Null
    /\ current_page = "dashboard"
    /\ rendered = Null

\* a row enters the table (INSERT INTO complaints, id AUTOINCREMENT)
InsertRow ==
    /\ pc = "idle"
    /\ Len(complaints) < MaxRows
    /\ \E r \in Catalogue :
          complaints' = Append(complaints,
              [id |-> Len(complaints) + 1, latitude |-> r.latitude,
               longitude |-> r.longitude, severity |-> r.severity,
               area_importance |-> r.area_importance, timestamp |-> r.timestamp,
               status |-> r.status])
    /\ UNCHANGED <<pc, df>>
    /\ UNCHANGED zoneVars
    /\ UNCHANGED clusterVars
    /\ UNCHANGED renderVars
    /\ complaint_seq' = complaint_seq + 1
    /\ UNCHANGED <<users, user_complaints, officer_actions, request>>
    /\ UNCHANGED sessionVars

\* POST /api/complaints with a body of the set bodies; tracked is FALSE when
\* track_complaint_submission raises
CreateComplaint(bodies) ==
    /\ pc = "idle"
    /\ complaint_seq < MaxRows
    /\ \E body \in bodies, geo \in GeocodeOutcomes, now \in SubmitClocks,
          tracked \in BOOLEAN :
          /\ request' = Some([body |-> body,
                              geocode |-> IF ~Refused(body) /\ Geocoded(body)
                                          THEN geo ELSE Null])
          /\ IF Refused(body) \/ body.image = "bad"
             THEN /\ http_status' = 400
                  /\ UNCHANGED <<complaints, complaint_seq, user_complaints>>
             ELSE /\ complaints' =
                        Append(complaints,
                               NewComplaint(body, geo, now, complaint_seq + 1))
                  /\ complaint_seq' = complaint_seq + 1
                  /\ user_complaints' =
                        IF Truthy(body.user_id) /\ tracked
                        THEN Append(user_complaints,
                                    [user_id |-> body.user_id[1],
                                     complaint_id |-> complaint_seq + 1])
                        ELSE user_complaints
                  /\ http_status' = 201
    /\ pc' = "create_complaint"
    /\ UNCHANGED <<df, users, officer_actions>>
    /\ UNCHANGED <<req_top, req_now, zone_complaints, zones>>
    /\ UNCHANGED clusterVars
    /\ UNCHANGED renderVars
    /\ UNCHANGED sessionVars

SubmitComplaint == CreateComplaint(SubmitRequests)

\* POST /api/register with a body of the set bodies
Register(bodies) ==
    /\ pc = "idle"
    /\ \E body \in bodies, salt \in Salts :
          /\ request' = Some(body)
          /\ IF RegisterRefused(body)
             THEN /\ http_status' = 400
                  /\ UNCHANGED users
             ELSE /\ users' = create_user(body, salt)
                  /\ http_status' = 201
    /\ pc' = "register"
    /\ UNCHANGED <<complaints, df, complaint_seq, user_complaints, officer_actions>>
    /\ UNCHANGED <<req_top, req_now, zone_complaints, zones>>
    /\ UNCHANGED clusterVars
    /\ UNCHANGED renderVars
    /\ UNCHANGED sessionVars

\* POST /api/complaints/<complaint_id>/resolve and .../unresolve: action is
\* "resolved" or "unresolved"; saved is FALSE when log_officer_action raises
OfficerAction(handler, action) ==
    /\ pc = "idle"
    /\ \E officer_id \in OfficerIds, complaint_id \in ComplaintIds, saved \in BOOLEAN :
          /\ request' = Some([officer_id |-> officer_id, complaint_id |-> complaint_id])
          /\ IF ~Truthy(officer_id)
             THEN /\ http_status' = 400
                  /\ UNCHANGED <<complaints, officer_actions>>
             ELSE IF ~IsOfficer(officer_id[1])
             THEN /\ http_status' = 403
                  /\ UNCHANGED <<complaints, officer_actions>>
             ELSE IF ~saved
             THEN /\ http_status' = 500
                  /\ UNCHANGED <<complaints, officer_actions>>
             ELSE /\ officer_actions' = Append(officer_actions,
                        [id |-> Len(officer_actions) + 1, officer_id |-> officer_id[1],
                         complaint_id |-> complaint_id, action |-> action])
                  /\ complaints' = SetStatus(complaints, complaint_id, action)
                  /\ http_status' = 200
    /\ pc' = handler
    /\ UNCHANGED <<df, complaint_seq, users, user_complaints>>
    /\ UNCHANGED <<req_top, req_now, zone_complaints, zones>>
    /\ UNCHANGED clusterVars
    /\ UNCHANGED renderVars
    /\ UNCHANGED sessionVars

\* DELETE /api/user/<user_id>/complaints/<complaint_id>
DeleteUserComplaint ==
    /\ pc = "idle"
    /\ \E user_id \in UserIds, complaint_id \in ComplaintIds :
          /\ request' = Some([user_id |-> user_id, complaint_id |-> complaint_id])
          /\ IF Ownership(user_id, complaint_id)
             THEN /\ complaints' =
                        SelectSeq(complaints, LAMBDA r : r.id # complaint_id)
                  /\ user_complaints' =
                        SelectSeq(user_complaints,
                                  LAMBDA t : t.complaint_id # complaint_id)
                  /\ http_status' = 200
             ELSE /\ http_status' = 404
                  /\ UNCHANGED <<complaints, user_complaints>>
    /\ pc' = "delete_user_complaint"
    /\ UNCHANGED <<df, complaint_seq, users, officer_actions>>
    /\ UNCHANGED <<req_top, req_now, zone_complaints, zones>>
    /\ UNCHANGED clusterVars
    /\ UNCHANGED renderVars
    /\ UNCHANGED sessionVars

\* the requests of the store, as long as fewer than MaxCalls of them have
\* written
Enrol == Calls < MaxCalls /\ Register(StoreAccounts)
FileComplaint == Calls < MaxCalls /\ CreateComplaint(FiledRequests)
ResolveComplaint == Calls < MaxCalls /\ OfficerAction("resolve_complaint", "resolved")
UnresolveComplaint ==
    Calls < MaxCalls /\ OfficerAction("unresolve_complaint", "unresolved")
DeleteComplaint == Calls < MaxCalls /\ DeleteUserComplaint

\* a run of main() without a widget event: the first run of a session and the
\* run that st.rerun() starts
Run ==
    /\ \/ pc = "idle" /\ rendered = Null
       \/ pc = "rerun"
    /\ IF ~authenticated
       THEN /\ rendered' = Some("login")
            /\ UNCHANGED current_page
       ELSE /\ current_page' = SelectedPage(current_page)
            /\ rendered' = Some(SelectedPage(current_page))
    /\ pc' = "idle"
    /\ request' = Null
    /\ UNCHANGED <<authenticated, user, users>>
    /\ UNCHANGED <<complaints, df, complaint_seq, user_complaints, officer_actions>>
    /\ UNCHANGED zoneVars
    /\ UNCHANGED clusterVars
    /\ UNCHANGED renderVars

\* the run in which login_form is submitted; reachable is FALSE when the
\* request raises a RequestException
LoginPage ==
    /\ pc = "idle"
    /\ ~authenticated
    /\ rendered = Some("login")
    /\ \E cred \in Credentials, reachable \in BOOLEAN :
          LET result == IF reachable THEN login(cred.username, cred.password)
                        ELSE Null
          IN  /\ request' = Some([widget |-> "login_form", username |-> cred.username,
                                  password |-> cred.password, reachable |-> reachable])
              /\ IF cred.username # <<>> /\ cred.password # <<>> /\ result # Null
                 THEN /\ authenticated' = TRUE
                      /\ user' = result
                      /\ pc' = "rerun"
                 ELSE UNCHANGED <<authenticated, user, pc>>
    /\ UNCHANGED <<current_page, rendered, users>>
    /\ UNCHANGED <<complaints, df, complaint_seq, user_complaints, officer_actions>>
    /\ UNCHANGED zoneVars
    /\ UNCHANGED clusterVars
    /\ UNCHANGED renderVars

\* the run in which register_form is submitted
RegisterPage ==
    /\ pc = "idle"
    /\ ~authenticated
    /\ rendered = Some("login")
    /\ \E form \in Forms, salt \in Salts, reachable \in BOOLEAN :
          LET body == Account(form.username, form.email, form.password, form.role)
          IN  /\ request' = Some([widget |-> "register_form", username |-> form.username,
                                  password |-> form.password, reachable |-> reachable])
              /\ IF ~FormRefused(form) /\ reachable /\ ~RegisterRefused(body)
                 THEN /\ users' = create_user(body, salt)
                      /\ current_page' = "login"
                      /\ pc' = "rerun"
                 ELSE UNCHANGED <<users, current_page, pc>>
    /\ UNCHANGED <<authenticated, user, rendered>>
    /\ UNCHANGED <<complaints, df, complaint_seq, user_complaints, officer_actions>>
    /\ UNCHANGED zoneVars
    /\ UNCHANGED clusterVars
    /\ UNCHANGED renderVars

\* the run in which another page is chosen in the selectbox
Navigate ==
    /\ pc = "idle"
    /\ authenticated
    /\ rendered \in {Some(p) : p \in Pages}
    /\ \E page \in Pages \ {current_page} :
          /\ request' = Some([widget |-> "selectbox", page |-> page])
          /\ current_page' = page
          /\ rendered' = Some(page)
    /\ UNCHANGED <<pc, authenticated, user, users>>
    /\ UNCHANGED <<complaints, df, complaint_seq, user_complaints, officer_actions>>
    /\ UNCHANGED zoneVars
    /\ UNCHANGED clusterVars
    /\ UNCHANGED renderVars

\* the run in which a button of the dashboard is pressed
DashboardButton ==
    /\ pc = "idle"
    /\ authenticated
    /\ rendered = Some("dashboard")
    /\ \E page \in {"complaint", "heatmap", "priority"} :
          /\ request' = Some([widget |-> "button", page |-> page])
          /\ current_page' = page
    /\ pc' = "rerun"
    /\ UNCHANGED <<rendered, authenticated, user, users>>
    /\ UNCHANGED <<complaints, df, complaint_seq, user_complaints, officer_actions>>
    /\ UNCHANGED zoneVars
    /\ UNCHANGED clusterVars
    /\ UNCHANGED renderVars

\* the run in which Logout is pressed: the sidebar is drawn, the page is not
Logout ==
    /\ pc = "idle"
    /\ authenticated
    /\ rendered \in {Some(p) : p \in Pages}
    /\ request' = Some([widget |-> "logout", page |-> current_page])
    /\ authenticated' = FALSE
    /\ user' = Null
    /\ current_page' = "dashboard"
    /\ rendered' = Some("sidebar")
    /\ pc' = "rerun"
    /\ UNCHANGED users
    /\ UNCHANGED <<complaints, df, complaint_seq, user_complaints, officer_actions>>
    /\ UNCHANGED zoneVars
    /\ UNCHANGED clusterVars
    /\ UNCHANGED renderVars

\* GET /api/complaints/priority-zones
PriorityZones ==
    /\ pc = "idle"
    /\ \E arg \in TopArgs, now \in Clocks :
          /\ req_top' = TopOf(arg)
          /\ req_now' = Some(now)
          /\ zone_complaints' = ZoneComplaints(SelectLocated(complaints))
          /\ zones' = RankZones(complaints, now, TopOf(arg))
    /\ http_status' = 200
    /\ pc' = "priority_zones"
    /\ UNCHANGED <<complaints, df>>
    /\ UNCHANGED clusterVars
    /\ UNCHANGED renderVars
    /\ UNCHANGED storeVars
    /\ UNCHANGED <<request, sessionVars>>

\* GET /api/complaints/priority-zones once more, with the same top, at the
\* same time
PriorityZonesAgain ==
    /\ pc = "priority_zones"
    /\ zone_complaints' = ZoneComplaints(SelectLocated(complaints))
    /\ zones' = RankZones(complaints, req_now[1], req_top)
    /\ http_status' = 200
    /\ pc' = "priority_zones_again"
    /\ UNCHANGED <<req_top, req_now, complaints, df>>
    /\ UNCHANGED clusterVars
    /\ UNCHANGED renderVars
    /\ UNCHANGED storeVars
    /\ UNCHANGED <<request, sessionVars>>

\* a located complaint becomes a row of the dataframe (pd.DataFrame(complaints))
AddPoint ==
    /\ pc = "idle"
    /\ Len(df) < MaxPoints
    /\ \E lat \in PointLatitudes :
          df' = Append(df, [id |-> Len(df) + 1, latitude |-> lat,
                            longitude |-> PointLongitude,
                            severity |-> medium, category |-> road_damage])
    /\ UNCHANGED <<pc, complaints>>
    /\ UNCHANGED zoneVars
    /\ UNCHANGED clusterVars
    /\ UNCHANGED renderVars
    /\ UNCHANGED storeVars
    /\ UNCHANGED <<request, sessionVars>>

\* a located complaint with its severity and category becomes the first row of
\* the dataframe (GET /api/complaints, ORDER BY timestamp DESC)
AddReport ==
    /\ pc = "idle"
    /\ Len(df) < MaxPoints
    /\ \E r \in Reports :
          df' = <<[id |-> Len(df) + 1, latitude |-> r.latitude,
                   longitude |-> PointLongitude,
                   severity |-> r.severity, category |-> r.category]>> \o df
    /\ UNCHANGED <<pc, complaints>>
    /\ UNCHANGED zoneVars
    /\ UNCHANGED clusterVars
    /\ UNCHANGED renderVars
    /\ UNCHANGED storeVars
    /\ UNCHANGED <<request, sessionVars>>

\* a located complaint at one of two places becomes a row of the dataframe;
\* the dataframe grows to MaxCrowd rows
AddCrowdRow ==
    /\ pc = "idle"
    /\ Len(df) < MaxCrowd
    /\ \E lat \in {130800, 131250} :
          df' = Append(df, [id |-> Len(df) + 1, latitude |-> lat,
                            longitude |-> PointLongitude,
                            severity |-> medium, category |-> road_damage])
    /\ UNCHANGED <<pc, complaints>>
    /\ UNCHANGED zoneVars
    /\ UNCHANGED clusterVars
    /\ UNCHANGED renderVars
    /\ UNCHANGED storeVars
    /\ UNCHANGED <<request, sessionVars>>

\* cluster_complaints(df, eps, min_samples)
ClusterComplaints ==
    /\ pc = "idle"
    /\ \E e \in EpsArgs, ms \in MinSamplesArgs :
          /\ eps' = e
          /\ min_samples' = ms
          /\ LET result == cluster_complaints(df, e, ms)
             IN  /\ cluster' = result.cluster
                 /\ cluster_stats' = result.cluster_stats
                 /\ warning' = result.warning
                 /\ df' = result.df
    /\ pc' = "cluster_complaints"
    /\ UNCHANGED complaints
    /\ UNCHANGED zoneVars
    /\ UNCHANGED renderVars
    /\ UNCHANGED storeVars
    /\ UNCHANGED <<request, sessionVars>>

\* cluster_complaints once more, with the same dataframe and parameters (the
\* call of the tab "Insights" after the call of the tab "Cluster Analysis")
ClusterComplaintsAgain ==
    /\ pc = "cluster_complaints"
    /\ LET result == cluster_complaints(df, eps, min_samples)
       IN  /\ cluster' = result.cluster
           /\ cluster_stats' = result.cluster_stats
           /\ warning' = result.warning
           /\ df' = result.df
    /\ pc' = "cluster_complaints_again"
    /\ UNCHANGED <<eps, min_samples, complaints>>
    /\ UNCHANGED zoneVars
    /\ UNCHANGED renderVars
    /\ UNCHANGED storeVars
    /\ UNCHANGED <<request, sessionVars>>

\* render, tabs "Cluster Analysis" and "Insights": the page has called
\* cluster_complaints with the values of its sliders, on a dataframe of at
\* least min_samples rows, and shows the clusters
RenderClusters ==
    /\ pc = "cluster_complaints"
    /\ eps > 0
    /\ min_samples >= 1
    /\ Len(df) >= min_samples
    /\ valid_clusters' = ValidClusters(cluster_stats)
    /\ valid_category_clusters' = ValidCategoryClusters(df, cluster)
    /\ pc' = "render"
    /\ UNCHANGED <<complaints, df>>
    /\ UNCHANGED zoneVars
    /\ UNCHANGED clusterVars
    /\ UNCHANGED storeVars
    /\ UNCHANGED <<request, sessionVars>>

\* the result has been delivered
Deliver ==
    /\ pc # "idle"
    /\ pc' = "idle"
    /\ req_top' = 0
    /\ req_now' = Null
    /\ zone_complaints' = <<>>
    /\ zones' = <<>>
    /\ http_status' = 0
    /\ eps' = 0
    /\ min_samples' = 0
    /\ cluster' = <<>>
    /\ cluster_stats' = EmptyStats
    /\ warning' = FALSE
    /\ valid_clusters' = EmptyStats
    /\ valid_category_clusters' = EmptyStats
    /\ UNCHANGED <<complaints, df>>
    /\ request' = Null
    /\ UNCHANGED storeVars
    /\ UNCHANGED sessionVars

Next == InsertRow \/ PriorityZones \/ Deliver

Spec == Init /\ [][Next]_vars

NextCluster == AddPoint \/ ClusterComplaints \/ RenderClusters \/ Deliver

SpecCluster == Init /\ [][NextCluster]_vars

\* the dataframe carries severities and categories that differ
NextSummary == AddReport \/ ClusterComplaints \/ RenderClusters \/ Deliver

SpecSummary == Init /\ [][NextSummary]_vars

\* the dataframe holds up to MaxCrowd complaints of two places
NextCrowd == AddCrowdRow \/ ClusterComplaints \/ RenderClusters \/ Deliver

SpecCrowd == Init /\ [][NextCrowd]_vars

\* complaints are submitted with and without coordinates and area names
NextSubmit == SubmitComplaint \/ Deliver

SpecSubmit == Init /\ [][NextSubmit]_vars

\* users register, complaints are filed, resolved, reopened and deleted
NextStore ==
    \/ Enrol \/ FileComplaint \/ ResolveComplaint \/ UnresolveComplaint
    \/ DeleteComplaint \/ Deliver

SpecStore == Init /\ [][NextStore]_vars

\* one browser session of the Streamlit application
NextSession ==
    \/ Run \/ LoginPage \/ RegisterPage \/ Navigate \/ DashboardButton \/ Logout

SpecSession == Init /\ [][NextSession]_vars

\* both operations of the engine; they read disjoint inputs, and a behaviour
\* fills one of the two
FillTable == InsertRow /\ df = <<>>

FillFrame == AddPoint /\ complaints = <<>>

NextEngine ==
    FillTable \/ FillFrame \/ PriorityZones \/ PriorityZonesAgain
        \/ ClusterComplaints \/ ClusterComplaintsAgain \/ Deliver

SpecEngine == Init /\ [][NextEngine]_vars

\* ------------------------------------------- what the specification defines
\* the members of a returned zone: the dict entry of its (latitude, longitude)
MembersOf(z) ==
    (CHOOSE e \in {zone_complaints[i] : i \in 1..Len(zone_complaints)} :
        e.key = <<z.latitude, z.longitude>>).complaints

SetMax(S) == CHOOSE m \in S : \A x \in S : x <= m

\* weight of the maximum-severity member, table {low:1, medium:2, high:3, critical:4}
OrdinalSeverityWeight(members) ==
    SetMax({severity_weight(members[i].severity) : i \in 1..Len(members)})

\* weight of the maximum area-importance member, in 1/1000
OrdinalAreaWeight(members) ==
    SetMax({area_importance_weight(members[i].area_importance) : i \in 1..Len(members)})

Parses(ts) == FromIsoformat(ReplaceZ(ts)).ok

\* age of one record in whole days, never negative; 0 if its timestamp does not parse
AgeOf(ts, now) ==
    IF Parses(ts) THEN Max2(0, DeltaDays(now, FromIsoformat(ReplaceZ(ts)).dt)) ELSE 0

\* age of the oldest member if some member is unresolved, else 0
OldestAge(members, now) ==
    IF \E i \in 1..Len(members) : members[i].status = "unresolved"
    THEN SetMax({AgeOf(members[i].timestamp, now) : i \in 1..Len(members)})
    ELSE 0

Returned == pc = "priority_zones"

ZoneIdx == 1..Len(zones)

\* ------------------------------------------------------------------ claims
\* C1: every returned zone's priority_score is count*2 + severity_weight*3 +
\* days_unresolved*1.5 + area_weight*2 rounded to 2 decimals, with the weight of
\* the maximum-severity member, the weight of the maximum area-importance member
\* and the age of the oldest member, all recomputed from the zone's members.
C1_ScoreRecomputed ==
    Returned =>
        \A i \in ZoneIdx :
            LET m == MembersOf(zones[i])
            IN  zones[i].priority_score =
                    RoundTo(Len(m) * 2000 + OrdinalSeverityWeight(m) * 3000
                            + OldestAge(m, req_now[1]) * 1500
                            + OrdinalAreaWeight(m) * 2, 10)

\* C2: the severity reported for a zone is a member severity whose table weight
\* is the highest among the members (ordinal maximum, not string order).
C2_SeverityIsOrdinalMax ==
    Returned =>
        \A i \in ZoneIdx :
            LET m == MembersOf(zones[i])
            IN  /\ \E k \in 1..Len(m) : m[k].severity = zones[i].severity
                /\ severity_weight(zones[i].severity) = OrdinalSeverityWeight(m)

\* C3: the area importance reported for a zone is a member area_importance whose
\* table weight is the highest among the members (ordinal maximum).
C3_AreaIsOrdinalMax ==
    Returned =>
        \A i \in ZoneIdx :
            LET m == MembersOf(zones[i])
            IN  /\ \E k \in 1..Len(m) : m[k].area_importance = zones[i].area_importance
                /\ area_importance_weight(zones[i].area_importance) = OrdinalAreaWeight(m)

\* C4: for a zone whose timestamps all parse, days_unresolved is 0 when no
\* member is unresolved and otherwise the age in whole days, clamped at 0, of
\* the member with the earliest timestamp.
C4_DaysOfEarliestMember ==
    Returned =>
        \A i \in ZoneIdx :
            LET m == MembersOf(zones[i])
            IN  (\A k \in 1..Len(m) : Parses(m[k].timestamp))
                    => /\ zones[i].days_unresolved = OldestAge(m, req_now[1])
                       /\ zones[i].days_unresolved >= 0

\* the zones of the table: the rounded coordinate pairs of its located rows
Located == {i \in 1..Len(complaints) :
               complaints[i].latitude # Null /\ complaints[i].longitude # Null}

\* x (in 1e-4 degree) rounded to 2 decimals: the hundredth nearest to x
Nearest(x) == CHOOSE h \in ((x \div 100) - 1)..((x \div 100) + 1) :
                  \A g \in ((x \div 100) - 1)..((x \div 100) + 1) :
                      g # h => (IF x >= 100 * h THEN x - 100 * h ELSE 100 * h - x)
                                 < (IF x >= 100 * g THEN x - 100 * g ELSE 100 * g - x)

GridOf(i) == <<Nearest(complaints[i].latitude[1]), Nearest(complaints[i].longitude[1])>>

\* C5: for top >= 1 the result is sorted by priority_score, non-increasing, and
\* its length is exactly min(top, number of zones).
C5_SortedAndTruncated ==
    (Returned /\ req_top >= 1) =>
        /\ \A i \in ZoneIdx : \A j \in ZoneIdx :
               i < j => zones[i].priority_score >= zones[j].priority_score
        /\ Len(zones) = Min2(req_top, Cardinality({GridOf(i) : i \in Located}))

\* C5 witness: three zones of which top = 2 keeps the two of highest score, and
\* the two kept have different scores
C5_Witness ==
    /\ Returned /\ req_top = 2
    /\ Cardinality({GridOf(i) : i \in Located}) = 3
    /\ Len(zones) = 2
    /\ zones[1].priority_score > zones[2].priority_score
    /\ \E k \in 1..Len(zone_complaints) :
          /\ zone_complaints[k].key # <<zones[1].latitude, zones[1].longitude>>
          /\ zone_complaints[k].key # <<zones[2].latitude, zones[2].longitude>>
          /\ k < Len(zone_complaints)

\* C6: a request with top < 1 is refused with a validation error and returns
\* no zone list.
C6_TopBelowOneRejected ==
    (Returned /\ req_top < 1) => (http_status = 400 /\ zones = <<>>)

\* C7: two located complaints are members of the same zone exactly when their
\* latitudes rounded to 2 decimals are equal and their longitudes rounded to 2
\* decimals are equal; the zone's key, and the latitude/longitude reported for
\* it, is that rounded pair.
C7_GridBucketing ==
    Returned =>
        /\ \A i \in Located : \A j \in Located :
               (\E k \in 1..Len(zone_complaints) :
                    \E a \in 1..Len(zone_complaints[k].complaints) :
                    \E b \in 1..Len(zone_complaints[k].complaints) :
                        /\ zone_complaints[k].complaints[a].id = complaints[i].id
                        /\ zone_complaints[k].complaints[b].id = complaints[j].id)
               <=> GridOf(i) = GridOf(j)
        /\ \A i \in Located : \A k \in 1..Len(zone_complaints) :
               (\E a \in 1..Len(zone_complaints[k].complaints) :
                    zone_complaints[k].complaints[a].id = complaints[i].id)
               => zone_complaints[k].key = GridOf(i)
        /\ \A i \in ZoneIdx :
               \E j \in Located : <<zones[i].latitude, zones[i].longitude>> = GridOf(j)

\* C7 witness: (13.0821, 80.2701) and (13.0829, 80.2704) share zone
\* (13.08, 80.27) and (13.09, 80.27) is another zone
C7_Witness ==
    /\ Returned
    /\ \E i \in Located : \E j \in Located : \E l \in Located :
          /\ complaints[i].latitude = Some(130821) /\ complaints[i].longitude = Some(802701)
          /\ complaints[j].latitude = Some(130829) /\ complaints[j].longitude = Some(802704)
          /\ complaints[l].latitude = Some(130900) /\ complaints[l].longitude = Some(802700)
    /\ \E k \in 1..Len(zone_complaints) :
          zone_complaints[k].key = <<1308, 8027>> /\ Len(zone_complaints[k].complaints) = 2
    /\ \E k \in 1..Len(zone_complaints) :
          zone_complaints[k].key = <<1309, 8027>> /\ Len(zone_complaints[k].complaints) = 1
    /\ \E i \in ZoneIdx : zones[i].latitude = 1308 /\ zones[i].complaint_count = 2

\* the table with its rows taken in the order f
Reordered(f) == [i \in 1..Len(complaints) |-> complaints[f[i]]]

\* C8: the ranked list does not depend on the order of the records: every
\* permutation of the snapshot gives the same sequence of zones.
C8_OrderIndependent ==
    Returned =>
        \A f \in Permutations(1..Len(complaints)) :
            RankZones(Reordered(f), req_now[1], req_top) = zones

\* C9: a timestamp that does not parse never fails the request; the record
\* contributes age 0 and the other members' timestamps still determine the age
\* of the oldest member.
C9_UnparsableContributesZero ==
    Returned =>
        /\ http_status = 200
        /\ \A i \in ZoneIdx :
               LET m == MembersOf(zones[i])
               IN  (\E k \in 1..Len(m) : ~Parses(m[k].timestamp))
                       => zones[i].days_unresolved = OldestAge(m, req_now[1])

\* the result of cluster_complaints on its density-clustering path
Clustered == pc = "cluster_complaints" /\ eps > 0 /\ min_samples >= 1 /\ Len(df) >= 2

PointIdx == 1..Len(df)

Within(i, j) == Haversine(df[i], df[j]) <= eps

\* a core point has at least min_samples points, itself included, within eps
Core(i) == Cardinality({j \in PointIdx : Within(i, j)}) >= min_samples

\* C10: a point is labelled noise (-1) exactly when it is not a core point and
\* lies within eps of no core point; every other point has a non-negative label,
\* and the label of a non-core point is that of one of its core neighbours.
C10_NoiseIffUnreachable ==
    Clustered =>
        \A i \in PointIdx :
            /\ cluster[i] = 0 - 1
                   <=> (~Core(i) /\ ~\E j \in PointIdx : Core(j) /\ Within(i, j))
            /\ cluster[i] >= 0 - 1
            /\ (cluster[i] >= 0 /\ ~Core(i))
                   => \E j \in PointIdx : Core(j) /\ Within(i, j) /\ cluster[j] = cluster[i]

\* C10 witness: a result with a core point, a labelled border point and a noise point
C10_Witness ==
    /\ Clustered
    /\ \E i \in PointIdx : Core(i) /\ cluster[i] >= 0
    /\ \E i \in PointIdx : ~Core(i) /\ cluster[i] >= 0
    /\ \E i \in PointIdx : cluster[i] = 0 - 1

\* the core points joined to the points of S by a chain of core points whose
\* consecutive points lie within eps of one another
RECURSIVE CoreChain(_)
CoreChain(S) ==
    LET T == S \cup {j \in PointIdx : Core(j) /\ \E i \in S : Within(i, j)}
    IN  IF T = S THEN S ELSE CoreChain(T)

\* C11: two core points carry the same label exactly when a chain of core
\* points, consecutive ones within eps of one another, joins them; the partition
\* of the core points is therefore the one of that relation, whatever the order
\* of the rows.
C11_CoresLabelledByChain ==
    Clustered =>
        \A i, j \in PointIdx :
            (Core(i) /\ Core(j)) =>
                (cluster[i] = cluster[j] <=> j \in CoreChain({i}))

\* C11 witness: two core points further apart than eps share a label through a
\* third one, and another core point has another label
C11_Witness ==
    /\ Clustered
    /\ \E i, j \in PointIdx :
          /\ Core(i) /\ Core(j) /\ ~Within(i, j)
          /\ j \in CoreChain({i}) /\ cluster[i] = cluster[j]
    /\ \E i, j \in PointIdx : Core(i) /\ Core(j) /\ cluster[i] # cluster[j]

Labelled(l) == {i \in PointIdx : cluster[i] = l}

C14_NonPositiveRejected ==
    pc = "cluster_complaints" => eps > 0 /\ min_samples > 0

\* C15: when the clustering fails inside cluster_complaints (DBSCAN.fit raises),
\* the call still returns: every row is labelled noise, the statistics frame is
\* empty and a warning has been shown.
C15_FailureDegradesToNoise ==
    (pc = "cluster_complaints" /\ Len(df) >= 2 /\ (eps <= 0 \/ min_samples < 1)) =>
        /\ Len(cluster) = Len(df)
        /\ \A i \in PointIdx : cluster[i] = 0 - 1
        /\ DOMAIN cluster_stats = {}
        /\ warning

\* C15 witness: the call has failed on rows that lie at one place
C15_Witness ==
    /\ pc = "cluster_complaints"
    /\ Len(df) >= 2 /\ eps <= 0 /\ min_samples = 2
    /\ df[1].latitude = df[2].latitude
    /\ warning
    /\ \A i \in PointIdx : cluster[i] = 0 - 1

\* C16: an empty input is not an error: priority_zones on a table without a
\* located complaint answers 200 with an empty list, and cluster_complaints on a
\* dataframe without rows returns no label and an empty statistics frame,
\* without a warning.
C16_EmptyInputEmptyResult ==
    /\ (Returned /\ Located = {}) => (zones = <<>> /\ http_status = 200)
    /\ (pc = "cluster_complaints" /\ Len(df) = 0) =>
          (cluster = <<>> /\ DOMAIN cluster_stats = {} /\ ~warning)

\* C16 witness: the zones of a table whose rows all lack a coordinate
C16_Witness ==
    /\ Returned
    /\ Len(complaints) >= 2
    /\ Located = {}
    /\ zones = <<>>
    /\ http_status = 200

C18_ThreeNearOneFar ==
    (pc = "cluster_complaints" /\ eps = EpsRadians(5) /\ min_samples = 2
        /\ Len(df) = 4) =>
        \A far \in PointIdx :
            (/\ \A i, j \in PointIdx \ {far} : Haversine(df[i], df[j]) <= 4708
             /\ \A i \in PointIdx \ {far} : Haversine(df[i], df[far]) >= 73771)
            => /\ cluster[far] = 0 - 1
               /\ \A i, j \in PointIdx \ {far} :
                      cluster[i] = cluster[j] /\ cluster[i] >= 0

\* C18 witness: the rows at 13.0800, 13.0813 and 13.0826 N in one cluster and the
\* row at 13.1250 N noise
C18_Witness ==
    /\ pc = "cluster_complaints" /\ eps = EpsRadians(5) /\ min_samples = 2
    /\ Len(df) = 4
    /\ {df[i].latitude : i \in PointIdx} = {130800, 130813, 130826, 131250}
    /\ \A i \in PointIdx :
          cluster[i] = IF df[i].latitude = 131250 THEN 0 - 1 ELSE 0

\* the values of a column most frequent among the rows labelled l
MostFrequent(l, column) ==
    {df[i][column] : i \in {i \in Labelled(l) :
        \A j \in Labelled(l) :
            Cardinality({k \in Labelled(l) : df[k][column] = df[i][column]})
                >= Cardinality({k \in Labelled(l) : df[k][column] = df[j][column]})}}

\* of these values, the one met first when the rows are taken by ascending id
FirstById(l, column) ==
    LET i == CHOOSE i \in Labelled(l) :
                 /\ df[i][column] \in MostFrequent(l, column)
                 /\ \A j \in Labelled(l) :
                        df[j][column] \in MostFrequent(l, column) => df[i].id <= df[j].id
    IN  df[i][column]

\* C19: the dominant severity of a cluster, and its dominant category, is a
\* most frequent value among the rows of the cluster; of several most frequent
\* values it is the one met first when the rows are taken by ascending id,
\* whatever the order of the rows of the dataframe.
C19_DominantTieByRecordId ==
    /\ pc \in {"cluster_complaints", "render"} =>
          \A l \in DOMAIN cluster_stats \ {0 - 1} :
              cluster_stats[l].dominant_severity = FirstById(l, "severity")
    /\ pc = "render" =>
          \A l \in DOMAIN valid_category_clusters :
              valid_category_clusters[l] = FirstById(l, "category")

\* the labels of clusters in the statistics frame
ClusterLabels == DOMAIN cluster_stats \ {0 - 1}

\* C20: the size of a cluster is the number of rows that carry its label, its
\* centroid latitude and longitude are the arithmetic means (sum over count) of
\* those rows' latitudes and longitudes, and the sizes of all clusters and the
\* number of noise rows add up to the number of rows.
C20_SizeCentroidTotal ==
    pc = "cluster_complaints" =>
        /\ \A l \in ClusterLabels :
               /\ cluster_stats[l].complaint_count = Cardinality(Labelled(l))
               /\ cluster_stats[l].latitude =
                      <<SumOver(Labelled(l), [i \in Labelled(l) |-> df[i].latitude]),
                        Cardinality(Labelled(l))>>
               /\ cluster_stats[l].longitude =
                      <<SumOver(Labelled(l), [i \in Labelled(l) |-> df[i].longitude]),
                        Cardinality(Labelled(l))>>
        /\ SumOver(ClusterLabels,
                   [l \in ClusterLabels |-> cluster_stats[l].complaint_count])
               + Cardinality(Labelled(0 - 1)) = Len(df)

\* C20 witness: a cluster of three rows at three places, and a noise row
C20_Witness ==
    /\ pc = "cluster_complaints"
    /\ ClusterLabels = {0}
    /\ Cardinality({df[i].latitude : i \in Labelled(0)}) = 3
    /\ cluster_stats[0].complaint_count = 3
    /\ Cardinality(Labelled(0 - 1)) = 1

\* C21: the priority level of a cluster depends on its size only: Critical for
\* 5 rows or more, High for 3 or 4 rows, Medium for fewer; every cluster the page
\* shows has exactly one of the three levels.
C21_TierBySize ==
    pc = "render" =>
        /\ DOMAIN valid_clusters = {cluster[i] : i \in PointIdx} \ {0 - 1}
        /\ \A l \in DOMAIN valid_clusters :
               LET size == Cardinality(Labelled(l))
                   level == valid_clusters[l].priority_level
               IN  /\ level \in {"Critical", "High", "Medium"}
                   /\ level = "Critical" <=> size >= 5
                   /\ level = "High" <=> (3 <= size /\ size <= 4)
                   /\ level = "Medium" <=> size <= 2

\* C21 witness: the page shows a cluster of exactly 5 rows, Critical, beside a
\* cluster of one row, Medium
C21_Witness ==
    /\ pc = "render"
    /\ \E l \in DOMAIN valid_clusters :
          /\ Cardinality(Labelled(l)) = 5
          /\ valid_clusters[l].priority_level = "Critical"
    /\ \E l \in DOMAIN valid_clusters :
          /\ Cardinality(Labelled(l)) = 1
          /\ valid_clusters[l].priority_level = "Medium"

\* C22: no zone and no cluster is without members: every zone returned has a
\* complaint_count of at least 1 and is the zone of a located row of the table,
\* and every row of the statistics frame counts at least one row of the
\* dataframe that carries its label.
C22_NoEmptyZoneOrCluster ==
    /\ pc \in {"priority_zones", "priority_zones_again"} =>
          \A i \in ZoneIdx :
              /\ zones[i].complaint_count >= 1
              /\ \E k \in Located :
                     ZoneKey(complaints[k]) = <<zones[i].latitude, zones[i].longitude>>
    /\ pc \in {"cluster_complaints", "cluster_complaints_again"} =>
          \A l \in DOMAIN cluster_stats :
              /\ cluster_stats[l].complaint_count >= 1
              /\ Labelled(l) # {}

\* C22 witness: a statistics frame with the rows of two clusters
C22_Witness ==
    /\ pc = "cluster_complaints"
    /\ ClusterLabels = {0, 1}
    /\ \A l \in ClusterLabels : cluster_stats[l].complaint_count >= 1

\* the columns of a row of the dataframe handed to cluster_complaints
FrameColumns == {"id", "latitude", "longitude", "severity", "category"}

C24_BothCoordinatesOrNeither ==
    \A i \in 1..Len(complaints) :
        complaints[i].latitude = Null <=> complaints[i].longitude = Null

\* the last row of the table complaints
Newest == complaints[Len(complaints)]

\* the request answered last was looked up by geocode_location without result
GeocodingFailed ==
    /\ pc = "create_complaint"
    /\ request # Null
    /\ request[1].geocode = <<Null, Null>>
    /\ request[1].body.image # "bad"

\* C25: a submission with an area name and without complete coordinates whose
\* geocoding fails is answered 201 and stored at the default coordinate
\* (13.0827, 80.2707) under its area name; no stored complaint has an area name
\* and lacks a coordinate.
C25_GeocodingFailureStoresDefault ==
    /\ GeocodingFailed =>
          /\ http_status = 201
          /\ complaints # <<>>
          /\ Newest.id = complaint_seq
          /\ Newest.latitude = Some(130827)
          /\ Newest.longitude = Some(802707)
          /\ Newest.area_name = Some(request[1].body.area_name)
    /\ \A i \in 1..Len(complaints) :
          complaints[i].area_name # Null =>
              complaints[i].latitude # Null /\ complaints[i].longitude # Null

C25_Witness ==
    /\ GeocodingFailed
    /\ request[1].body.latitude # Null
    /\ request[1].body.longitude = Null
    /\ http_status = 201
    /\ Len(complaints) = 2

\* the places <<zone, position>> of zone_complaints that hold the complaint id
PlacesOf(id) ==
    {zp \in (1..Len(zone_complaints)) \X (1..MaxRows + 1) :
        /\ zp[2] <= Len(zone_complaints[zp[1]].complaints)
        /\ zone_complaints[zp[1]].complaints[zp[2]].id = id}

\* the ids of the complaints that have both coordinates
LocatedIds ==
    {complaints[i].id : i \in {j \in 1..Len(complaints) :
        complaints[j].latitude # Null /\ complaints[j].longitude # Null}}

\* C26: after a ranking, every complaint with both coordinates is a member of
\* exactly one zone and no other complaint is a member of any; when top is at
\* least the number of zones, the complaint_count values of the zones returned
\* add up to the number of complaints with both coordinates.
C26_ZonesPartitionLocated ==
    pc = "priority_zones" =>
        /\ \A i \in 1..Len(complaints) :
              Cardinality(PlacesOf(complaints[i].id)) =
                  IF complaints[i].id \in LocatedIds THEN 1 ELSE 0
        /\ \A z \in 1..Len(zone_complaints) :
              /\ zone_complaints[z].complaints # <<>>
              /\ \A p \in 1..Len(zone_complaints[z].complaints) :
                    zone_complaints[z].complaints[p].id \in LocatedIds
        /\ req_top >= Len(zone_complaints) =>
              /\ Len(zones) = Len(zone_complaints)
              /\ SumOver(1..Len(zones), [z \in 1..Len(zones) |-> zones[z].complaint_count])
                    = Cardinality(LocatedIds)

C26_Witness ==
    /\ pc = "priority_zones"
    /\ Len(complaints) = 3
    /\ Cardinality(LocatedIds) = 2
    /\ Len(zone_complaints) = 1
    /\ req_top >= 1
    /\ zones[1].complaint_count = 2

\* the status of the complaint id in a table, Null when it has no such row
StatusOf(table, id) ==
    LET at == {i \in 1..Len(table) : table[i].id = id}
    IN  IF at = {} THEN Null ELSE Some(table[CHOOSE i \in at : TRUE].status)

\* the table users has an active row with this id and the role 'officer'
ActiveOfficer(officer_id) ==
    /\ officer_id # Null
    /\ \E i \in 1..Len(users) :
          /\ users[i].id = officer_id[1]
          /\ users[i].is_active = 1
          /\ users[i].role = "officer"

StatusKnown ==
    \A i \in 1..Len(complaints) : complaints[i].status \in {"unresolved", "resolved"}

StatusStep ==
    /\ \A id \in 1..complaint_seq' :
          /\ (StatusOf(complaints, id) = Null /\ StatusOf(complaints', id) # Null) =>
                StatusOf(complaints', id) = Some("unresolved")
          /\ (/\ StatusOf(complaints, id) # Null
              /\ StatusOf(complaints', id) # Null
              /\ StatusOf(complaints', id) # StatusOf(complaints, id)) =>
                /\ pc' \in {"resolve_complaint", "unresolve_complaint"}
                /\ http_status' = 200
                /\ request'[1].complaint_id = id
                /\ ActiveOfficer(request'[1].officer_id)
    /\ (pc = "idle" /\ pc' \in {"resolve_complaint", "unresolve_complaint"}) =>
          /\ request'[1].officer_id = Null => http_status' = 400
          /\ (request'[1].officer_id # Null /\ ~ActiveOfficer(request'[1].officer_id)) =>
                http_status' = 403
          /\ http_status' \in {400, 403} =>
                /\ ~ActiveOfficer(request'[1].officer_id)
                /\ complaints' = complaints
                /\ officer_actions' = officer_actions

\* C27: every stored complaint has the status 'unresolved' or 'resolved'; a
\* complaint starts 'unresolved'; a status changes only in a resolve or
\* unresolve request answered 200 whose officer_id names an active user with
\* the role 'officer'; a request without officer_id is answered 400, one of an
\* unknown user or a citizen 403, and neither changes a complaint or the log.
C27_StatusOnlyByOfficers == []StatusKnown /\ [][StatusStep]_vars

C27_Witness ==
    /\ pc = "unresolve_complaint"
    /\ http_status = 403
    /\ request[1].officer_id # Null
    /\ get_user_by_id(request[1].officer_id[1]) # Null
    /\ StatusOf(complaints, request[1].complaint_id) = Some("resolved")
    /\ Len(officer_actions) = 1

\* C28: every entry of the officer action log refers to a complaint of the
\* table, and a resolve or unresolve answered 200 has set the status of a
\* complaint of the table.
C28_LogRefersToStoredComplaint ==
    /\ \A i \in 1..Len(officer_actions) :
          StatusOf(complaints, officer_actions[i].complaint_id) # Null
    /\ (pc \in {"resolve_complaint", "unresolve_complaint"} /\ http_status = 200) =>
          StatusOf(complaints, request[1].complaint_id) =
              Some(officer_actions[Len(officer_actions)].action)

\* the tracking rows of a table that name the complaint id
TrackingOf(tracking, id) == SelectSeq(tracking, LAMBDA t : t.complaint_id = id)

DeleteStep ==
    /\ (pc = "idle" /\ pc' = "delete_user_complaint") =>
          LET user_id == request'[1].user_id
              complaint_id == request'[1].complaint_id
              linked == \E i \in 1..Len(user_complaints) :
                            /\ user_complaints[i].user_id = user_id
                            /\ user_complaints[i].complaint_id = complaint_id
          IN  IF linked
              THEN /\ http_status' = 200
                   /\ StatusOf(complaints, complaint_id) # Null
                   /\ StatusOf(complaints', complaint_id) = Null
                   /\ TrackingOf(user_complaints', complaint_id) = <<>>
                   /\ \A id \in (1..complaint_seq) \ {complaint_id} :
                         /\ SelectSeq(complaints', LAMBDA r : r.id = id) =
                               SelectSeq(complaints, LAMBDA r : r.id = id)
                         /\ TrackingOf(user_complaints', id) =
                               TrackingOf(user_complaints, id)
              ELSE /\ http_status' = 404
                   /\ complaints' = complaints
                   /\ user_complaints' = user_complaints
    /\ \A id \in 1..complaint_seq :
          /\ (StatusOf(complaints, id) # Null /\ StatusOf(complaints', id) = Null) =>
                /\ pc' = "delete_user_complaint"
                /\ request'[1].complaint_id = id
                /\ \E i \in 1..Len(user_complaints) :
                      /\ user_complaints[i].user_id = request'[1].user_id
                      /\ user_complaints[i].complaint_id = id
          /\ (TrackingOf(user_complaints, id) = <<>>) =>
                TrackingOf(user_complaints', id) = <<>>

RecordsOf(username, password) ==
    {[id |-> users[i].id, username |-> users[i].username, email |-> users[i].email,
      role |-> users[i].role] :
        i \in {j \in 1..Len(users) :
                  /\ users[j].username = username
                  /\ users[j].is_active = 1
                  /\ users[j].password_hash.pwdhash =
                        Pbkdf2(password, users[j].password_hash.salt)}}

\* the widget event of the run that has just ended
Event(widget) == request # Null /\ request[1].widget = widget

SessionConsistent ==
    /\ authenticated <=> user # Null
    /\ authenticated =>
          \E i \in 1..Len(users) :
              user[1] = [id |-> users[i].id, username |-> users[i].username,
                         email |-> users[i].email, role |-> users[i].role]
    /\ rendered \in {Some(p) : p \in Pages} => authenticated

SessionStep ==
    /\ (~authenticated /\ authenticated') =>
          /\ request'[1].widget = "login_form"
          /\ request'[1].reachable
          /\ user' \in {Some(r) : r \in RecordsOf(request'[1].username,
                                                    request'[1].password)}
    /\ (request' # request /\ request' # Null /\ request'[1].widget = "login_form") =>
          IF request'[1].reachable
             /\ RecordsOf(request'[1].username, request'[1].password) # {}
          THEN authenticated' /\ user' # Null
          ELSE authenticated' = authenticated /\ user' = user
    /\ (request' # request /\ request' # Null /\ request'[1].widget = "logout") =>
          /\ authenticated' = FALSE
          /\ user' = Null
          /\ current_page' = "dashboard"
    /\ (authenticated /\ ~authenticated') => request'[1].widget = "logout"

\* C30: in every state of a session, authenticated is true exactly when user
\* holds the record of a registered user that a login with matching name and
\* password returned, and a main page is rendered only while authenticated; a
\* login that fails changes neither field; a logout sets authenticated False,
\* user None and current_page 'dashboard'.
C30_SessionAuthenticated == []SessionConsistent /\ [][SessionStep]_vars

C30_Witness ==
    /\ Event("login_form")
    /\ request[1].username = alice
    /\ request[1].password = hunter22
    /\ request[1].reachable
    /\ Len(users) = 2
    /\ ~authenticated
    /\ user = Null
    /\ current_page = "dashboard"

====
